---------------------------- MODULE Spec2Model ----------------------------
(***************************************************************************)
(* A model of the ray tracer's rendering kernel: the intersection tests of *)
(* src/src/collision (Sphere, Torus, Parallelogram, the collection), the   *)
(* Metal and Dielectric materials, the recursive ray_color and the chunked *)
(* parallel render with its progress counter and the flipped output        *)
(* assembly of main.rs.                                                    *)
(*                                                                         *)
(* Numbers.  f64 values are modelled exactly as canonical rationals        *)
(* <<num, den>> with den >= 0; den = 0 encodes the IEEE-754 specials       *)
(* (<<1,0>> = +inf, <<-1,0>> = -inf, <<0,0>> = NaN), so that divisions by  *)
(* zero and comparisons with NaN behave as in the program.  Rounding is    *)
(* not modelled; the inputs are chosen so that every square root taken is  *)
(* exact.  A Vec3 is <<x, y, z, d>>, the vector (x/d, y/d, z/d), d > 0.    *)
(***************************************************************************)
EXTENDS Integers, Sequences, FiniteSets, TLC

VARIABLES
    \* ---- intersection (collection hit) ----
    world,      \* the ordered collection of hittables
    ray,        \* the ray tested
    t_min,      \* lower end of the window given to the collection
    t_max0,     \* upper end of the window given to the collection
    t_max,      \* the collection's `mut t_max`
    closest_hit,\* the collection's `closest_hit`
    obj_i,      \* position of the `for object in self` loop
    last_call,  \* the latest member call: its window and what it returned
    hpc,        \* "loop" | "done" | "off"
    \* ---- Hit::with_face_normal, Metal::scatter and Dielectric::scatter ----
    s_ray,      \* the incoming ray
    s_outward,  \* the outward normal supplied to with_face_normal
    s_t,        \* the ray parameter of the hit
    s_hit,      \* the Hit built (None before)
    s_metal,    \* the Metal material: [albedo, fuzz]
    s_rnd,      \* the random_in_unit_sphere draw of the scatter
    s_glass,    \* the Dielectric material: [on, ri]
    s_draw,     \* the rand::random() draw of Dielectric::scatter
    s_out,      \* what scatter returned
    spc,        \* "build" | "scatter" | "done" | "off"
    \* ---- ray_color ----
    rc_depth0,  \* depth of the outermost call
    rc_depth,   \* depth of the innermost call
    rc_ray,     \* ray of the innermost call
    rc_stack,   \* attenuations of the calls waiting for their recursive call
    rc_val,     \* the value being returned
    rc_tests,   \* intersection tests made (world.hit)
    rc_scatters,\* material.scatter calls made
    rc_calls,   \* invocations of ray_color
    rc_world,   \* the scene given to ray_color
    rc_chain,   \* attenuations of the scattering bounces so far, outermost first
    rc_end,     \* how the bounce chain ended: "none" | "miss" | "absorbed" | "depth"
    rc_pc,      \* "call" | "ret" | "done" | "off"
    \* ---- parallel render and output assembly (main) ----
    threads,    \* num_cpus::get()
    buf,        \* the pixel buffer: index -> colour (Unset before it is written)
    writes,     \* index -> number of writes so far
    writer,     \* index -> set of chunks that wrote it
    chunk,      \* chunk number -> [pc, k, row, col, lines]
    linesleft,  \* the shared AtomicI32
    rows_done,  \* rows completed so far (`row += 1` executed)
    reported,   \* the latest "Scanlines remaining" print: [val, rows], or none
    imgbuf,     \* the output image: <<col, row>> -> colour (Unset before put)
    puts,       \* <<col, row>> -> number of put_pixel calls
    a_idx,      \* `idx` of the assembly loop
    a_row,      \* position of `for row in (0..IMG_HEIGHT).rev()`, from 1
    a_col,      \* `col` of the assembly loop
    mpc         \* "render" | "assemble" | "saved" | "off"

hitVars == <<world, ray, t_min, t_max0, t_max, closest_hit, obj_i, last_call, hpc>>
scatterVars ==
    <<s_ray, s_outward, s_t, s_hit, s_metal, s_rnd, s_glass, s_draw, s_out, spc>>
colorVars ==
    <<rc_depth0, rc_depth, rc_ray, rc_stack, rc_val, rc_tests, rc_scatters, rc_calls,
      rc_world, rc_chain, rc_end, rc_pc>>
renderVars ==
    <<threads, buf, writes, writer, chunk, linesleft, rows_done, reported, imgbuf, puts,
      a_idx, a_row, a_col, mpc>>
vars == <<hitVars, scatterVars, colorVars, renderVars>>

-----------------------------------------------------------------------------
(* Integer helpers *)

Abs(i) == IF i < 0 THEN -i ELSE i

Sgn(i) == IF i < 0 THEN -1 ELSE IF i > 0 THEN 1 ELSE 0

RECURSIVE GCD(_, _)
GCD(a, b) == IF b = 0 THEN a ELSE GCD(b, a % b)

ISqrt(n) == CHOOSE k \in 0..n : k * k <= n /\ n < (k + 1) * (k + 1)

IsSquare(n) == n >= 0 /\ ISqrt(n) * ISqrt(n) = n

-----------------------------------------------------------------------------
(* f64 scalars as canonical rationals *)

QMk(n, d) ==
    IF d = 0 THEN <<Sgn(n), 0>>
    ELSE LET s == IF d < 0 THEN -1 ELSE 1
             g == GCD(Abs(n), Abs(d))
         IN <<(s * n) \div g, (s * d) \div g>>

QInt(i) == <<i, 1>>
INFINITY == <<1, 0>>
IsNaN(x) == x = <<0, 0>>
IsInfinite(x) == x[2] = 0 /\ x[1] # 0

QNeg(x) == <<-x[1], x[2]>>

QAdd(x, y) ==
    IF x[2] = 0 \/ y[2] = 0
    THEN IF x[2] = 0 /\ y[2] = 0
         THEN (IF x[1] = y[1] THEN x ELSE <<0, 0>>)
         ELSE (IF x[2] = 0 THEN x ELSE y)
    ELSE QMk(x[1] * y[2] + y[1] * x[2], x[2] * y[2])

QSub(x, y) == QAdd(x, QNeg(y))
QMul(x, y) == QMk(x[1] * y[1], x[2] * y[2])
QDiv(x, y) == QMk(x[1] * y[2] * (IF y[1] < 0 THEN -1 ELSE 1), x[2] * Abs(y[1]))

\* IEEE comparisons: anything compared with NaN is false.
QLt(x, y) ==
    /\ ~IsNaN(x) /\ ~IsNaN(y)
    /\ IF x[2] = 0 /\ y[2] = 0 THEN x[1] < y[1]
       ELSE x[1] * y[2] < y[1] * x[2]

QLe(x, y) == ~IsNaN(x) /\ ~IsNaN(y) /\ (x = y \/ QLt(x, y))
QGt(x, y) == QLt(y, x)

QMin(a, b) == IF QLt(b, a) THEN b ELSE a

\* f64::sqrt, exact on the squares of rationals (the only arguments used).
QSqrtExact(x) == x[2] > 0 /\ IsSquare(x[1]) /\ IsSquare(x[2])
QSqrt(x) ==
    IF IsNaN(x) \/ x[1] < 0 THEN <<0, 0>>
    ELSE IF x[2] = 0 THEN x
    ELSE QMk(ISqrt(x[1]), ISqrt(x[2]))

\* (lo..hi).contains(&x) of a half-open Range<f64>
RangeContainsInclusive(lo, hi, x) == QLe(lo, x) /\ QLe(x, hi)
RangeContains(lo, hi, x) == QLe(lo, x) /\ QLt(x, hi)

-----------------------------------------------------------------------------
(* Vec3 *)

VMk(x, y, z, d) ==
    LET s == IF d < 0 THEN -1 ELSE 1
        g == GCD(GCD(GCD(Abs(x), Abs(y)), Abs(z)), Abs(d))
    IN <<(s * x) \div g, (s * y) \div g, (s * z) \div g, (s * d) \div g>>

V(x, y, z) == <<x, y, z, 1>>

VAdd(a, b) ==
    VMk(a[1] * b[4] + b[1] * a[4], a[2] * b[4] + b[2] * a[4],
        a[3] * b[4] + b[3] * a[4], a[4] * b[4])

VNeg(a) == <<-a[1], -a[2], -a[3], a[4]>>
VSub(a, b) == VAdd(a, VNeg(b))

\* f64 * Vec3 and Vec3 / f64, for a finite scalar (a nonzero one in VDiv)
VScale(q, a) == VMk(q[1] * a[1], q[1] * a[2], q[1] * a[3], q[2] * a[4])
VDiv(a, q) == VScale(QDiv(QInt(1), q), a)

VDot(a, b) == QMk(a[1] * b[1] + a[2] * b[2] + a[3] * b[3], a[4] * b[4])
VLengthSquared(a) == VDot(a, a)
VLength(a) == QSqrt(VLengthSquared(a))

VCross(a, b) ==
    VMk(a[2] * b[3] - a[3] * b[2], a[3] * b[1] - a[1] * b[3],
        a[1] * b[2] - a[2] * b[1], a[4] * b[4])

VNormalize(a) == VDiv(a, VLength(a))

-----------------------------------------------------------------------------
(* Ray and Hit *)

Ray(o, d) == [origin |-> o, direction |-> d]

RayAt(r, t) == VAdd(r.origin, VScale(t, r.direction))

None == [some |-> FALSE]
Some(h) == [some |-> TRUE, val |-> h]

\* The slip of flipping the normal on the wrong side.
WithFaceNormalFlipFront(r, outward_normal, t, material) ==
    LET front_face == QLt(VDot(r.direction, outward_normal), QInt(0))
    IN [point |-> RayAt(r, t),
        normal |-> IF front_face THEN VNeg(outward_normal) ELSE outward_normal,
        t |-> t, front_face |-> front_face, material |-> material]

WithFaceNormal(r, outward_normal, t, material) ==
    LET front_face == QLt(VDot(r.direction, outward_normal), QInt(0))
    IN [point |-> RayAt(r, t),
        normal |-> IF front_face THEN outward_normal ELSE VNeg(outward_normal),
        t |-> t, front_face |-> front_face, material |-> material]

-----------------------------------------------------------------------------
(* Sphere *)

Sphere(center, radius, material) ==
    [kind |-> "sphere", center |-> center, radius |-> radius, material |-> material]

SphereDiscriminant(s, r) ==
    LET oc == VSub(r.origin, s.center)
        a == VLengthSquared(r.direction)
        half_b == VDot(oc, r.direction)
        c == QSub(VLengthSquared(oc), QMul(s.radius, s.radius))
    IN QSub(QMul(half_b, half_b), QMul(a, c))

\* The slip of trying the far root first.
SphereHitFarRootFirst(s, r, tmin, tmax) ==
    LET oc == VSub(r.origin, s.center)
        a == VLengthSquared(r.direction)
        half_b == VDot(oc, r.direction)
        discriminant == SphereDiscriminant(s, r)
        sqrtd == QSqrt(discriminant)
        root1 == QDiv(QAdd(QNeg(half_b), sqrtd), a)
        root2 == QDiv(QSub(QNeg(half_b), sqrtd), a)
        ok1 == RangeContains(tmin, tmax, root1)
        ok2 == RangeContains(tmin, tmax, root2)
        root == IF ok1 THEN root1 ELSE root2
        point == RayAt(r, root)
        outward_normal == VDiv(VSub(point, s.center), s.radius)
    IN IF QLt(discriminant, QInt(0)) THEN None
       ELSE IF ~ok1 /\ ~ok2 THEN None
       ELSE Some(WithFaceNormal(r, outward_normal, root, s.material))

SphereHit(s, r, tmin, tmax) ==
    LET oc == VSub(r.origin, s.center)
        a == VLengthSquared(r.direction)
        half_b == VDot(oc, r.direction)
        discriminant == SphereDiscriminant(s, r)
        sqrtd == QSqrt(discriminant)
        root1 == QDiv(QSub(QNeg(half_b), sqrtd), a)
        root2 == QDiv(QAdd(QNeg(half_b), sqrtd), a)
        ok1 == RangeContains(tmin, tmax, root1)
        ok2 == RangeContains(tmin, tmax, root2)
        root == IF ok1 THEN root1 ELSE root2
        point == RayAt(r, root)
        outward_normal == VDiv(VSub(point, s.center), s.radius)
    IN IF QLt(discriminant, QInt(0)) THEN None
       ELSE IF ~ok1 /\ ~ok2 THEN None
       ELSE Some(WithFaceNormal(r, outward_normal, root, s.material))

-----------------------------------------------------------------------------
(* Torus.  Lines 64-86 of objects.rs build the companion matrix; its       *)
(* eigen-decomposition is nalgebra's.  The eigenvalues it returns for the  *)
(* ray of the scenario are carried by the record as `eigs`, a sequence of  *)
(* [re, im16], im16 being the imaginary part in units of 1e-16.            *)

Torus(center, major, minor, material, eigs) ==
    [kind |-> "torus", center |-> center, major |-> major, minor |-> minor,
     material |-> material, eigs |-> eigs]

\* |eigen.im| > 1e-15
ImTolerance16 == 10

RECURSIVE TorusSolution(_, _, _, _, _)
TorusSolution(eigs, k, tmin, tmax, acc) ==
    IF k > Len(eigs) THEN acc
    ELSE LET e == eigs[k]
             keep == ~(Abs(e.im16) > ImTolerance16) /\ RangeContains(tmin, tmax, e.re)
         IN TorusSolution(eigs, k + 1, tmin, tmax, IF keep THEN QMin(acc, e.re) ELSE acc)

TorusNormal(tor, r, solution) ==
    LET pt == VSub(RayAt(r, solution), tor.center)
        x == <<pt[1], pt[4]>>
        y == <<pt[2], pt[4]>>
        z == <<pt[3], pt[4]>>
        coeff == QDiv(QMul(tor.major, tor.major),
                      QSqrt(QAdd(QMul(x, x), QMul(y, y))))
        nx == QSub(QInt(1), QMul(coeff, x))
        ny == QSub(QInt(1), QMul(coeff, y))
        n == VMk(nx[1] * ny[2] * z[2], ny[1] * nx[2] * z[2],
                 z[1] * nx[2] * ny[2], nx[2] * ny[2] * z[2])
    IN VNormalize(n)

\* The square roots of TorusNormal are exact at `solution`.
TorusNormalExact(tor, r, solution) ==
    LET pt == VSub(RayAt(r, solution), tor.center)
        x == <<pt[1], pt[4]>>
        y == <<pt[2], pt[4]>>
        z == <<pt[3], pt[4]>>
        s2 == QAdd(QMul(x, x), QMul(y, y))
        coeff == QDiv(QMul(tor.major, tor.major), QSqrt(s2))
        nx == QSub(QInt(1), QMul(coeff, x))
        ny == QSub(QInt(1), QMul(coeff, y))
        len2 == QAdd(QAdd(QMul(nx, nx), QMul(ny, ny)), QMul(z, z))
    IN QSqrtExact(s2) /\ s2[1] > 0 /\ QSqrtExact(len2) /\ len2[1] > 0

TorusHit(tor, r, tmin, tmax) ==
    LET solution == TorusSolution(tor.eigs, 1, tmin, tmax, INFINITY)
    IN IF IsInfinite(solution) THEN None
       ELSE Some(WithFaceNormal(r, TorusNormal(tor, r, solution), solution,
                                tor.material))

-----------------------------------------------------------------------------
(* Parallelogram *)

\* (x, y, z) index triplets, 1-based
TRIPLETS == << <<2, 3, 1>>, <<3, 1, 2>>, <<1, 2, 3>> >>

CrossWithDir(x, y, direction) ==
    LET v == VCross(x, y)
    IN IF QLt(VDot(v, direction), QInt(0)) THEN VNeg(v) ELSE v

ParallelogramNew(corner, u, v, w, material) ==
    [kind |-> "parallelogram", corner |-> corner, axes |-> <<u, v, w>>,
     normals |-> <<VNormalize(CrossWithDir(v, w, u)),
                   VNormalize(CrossWithDir(u, w, v)),
                   VNormalize(CrossWithDir(u, v, w))>>,
     material |-> material]

\* determinant of the matrix with columns a, b, c
Det3(a, b, c) ==
    QMk(  a[1] * (b[2] * c[3] - b[3] * c[2])
        - b[1] * (a[2] * c[3] - a[3] * c[2])
        + c[1] * (a[2] * b[3] - a[3] * b[2]),
        a[4] * b[4] * c[4])

\* Matrix3::from_columns(&[a, b, c]).lu().solve_mut(&mut rhs): whether the
\* matrix is invertible, and the solution
LuSolve(a, b, c, rhs) ==
    LET det == Det3(a, b, c)
    IN [solved |-> det[1] # 0,
        x |-> <<QDiv(Det3(rhs, b, c), det), QDiv(Det3(a, rhs, c), det),
                QDiv(Det3(a, b, rhs), det)>>]

\* One side (floor or ceiling) of one pair of planes: the updated (t, normal)
ParSide(sol, tmin, acc, n) ==
    IF /\ sol.solved
       /\ RangeContains(tmin, acc.t, sol.x[3])
       /\ RangeContains(QInt(0), QInt(1), sol.x[1])
       /\ RangeContains(QInt(0), QInt(1), sol.x[2])
    THEN [t |-> sol.x[3], normal |-> Some(n)]
    ELSE acc

RECURSIVE ParLoop(_, _, _, _, _)
ParLoop(p, r, tmin, k, acc) ==
    IF k > Len(TRIPLETS) THEN acc
    ELSE LET x == TRIPLETS[k][1]
             y == TRIPLETS[k][2]
             z == TRIPLETS[k][3]
             nrd == VNeg(r.direction)
             floor == VSub(r.origin, p.corner)
             ceiling == VSub(VSub(r.origin, p.corner), p.axes[z])
             floor_sol == LuSolve(p.axes[x], p.axes[y], nrd, floor)
             ceiling_sol == LuSolve(p.axes[x], p.axes[y], nrd, ceiling)
             acc1 == ParSide(floor_sol, tmin, acc, VNeg(p.normals[z]))
             acc2 == ParSide(ceiling_sol, tmin, acc1, p.normals[z])
         IN ParLoop(p, r, tmin, k + 1, acc2)

ParallelogramHit(p, r, tmin, tmax) ==
    LET res == ParLoop(p, r, tmin, 1, [t |-> tmax, normal |-> None])
    IN IF ~res.normal.some THEN None
       ELSE Some(WithFaceNormal(r, res.normal.val, res.t, p.material))

-----------------------------------------------------------------------------
(* Hittable dispatch and the collection *)

ObjectHit(o, r, tmin, tmax) ==
    CASE o.kind = "sphere" -> SphereHit(o, r, tmin, tmax)
      [] o.kind = "torus" -> TorusHit(o, r, tmin, tmax)
      [] o.kind = "parallelogram" -> ParallelogramHit(o, r, tmin, tmax)

\* The slip of leaving the window as it was after a hit.
NarrowedTMaxKept(hit, tmax) == tmax

\* `t_max = hit.t`
NarrowedTMax(hit, tmax) == hit.t

-----------------------------------------------------------------------------
(* Scenarios of the intersection model *)

\* Longest collection tried
MaxWorld == 2

Sphere1 == Sphere(V(0, 0, -4), QInt(1), "blue_diffuse")
Sphere2 == Sphere(V(0, 0, -8), QInt(2), "red_diffuse")
Sphere3 == Sphere(V(0, 0, -1), <<1, 2>>, "yellow_diffuse")
Box1 == ParallelogramNew(V(-1, -1, -2), V(2, 0, 0), V(0, 2, 0), V(0, 0, -2), "glass")
Torus1 ==
    Torus(V(-1, 0, -6), QInt(1), <<1, 2>>, "metal",
          << [re |-> QInt(6), im16 |-> 0], [re |-> QInt(6), im16 |-> 10],
             [re |-> QInt(-3), im16 |-> 0],
             [re |-> QInt(2), im16 |-> 11], [re |-> QInt(2), im16 |-> -11] >>)
Torus2 ==
    Torus(V(-1, 0, -6), QInt(1), <<1, 2>>, "metal",
          << [re |-> QInt(-1), im16 |-> 0],
             [re |-> QInt(1), im16 |-> 40000], [re |-> QInt(1), im16 |-> -40000],
             [re |-> QInt(4), im16 |-> 90000], [re |-> QInt(4), im16 |-> -90000] >>)

Objects == {Sphere1, Sphere2, Sphere3, Box1, Torus1, Torus2}

Worlds == UNION {[1..n -> Objects] : n \in 0..MaxWorld}

Rays == {Ray(V(0, 0, 0), V(0, 0, -1)), Ray(V(0, 0, 0), V(0, 0, -2)),
         Ray(V(0, 0, 0), V(0, 1, 0)), Ray(V(0, 0, 0), V(0, 0, 0))}

TMins == {QInt(0), <<1, 1000>>, QInt(4)}
TMaxs == {QInt(3), QInt(5), INFINITY}

\* Every square root the scenario takes is exact.
ObjectExact(o, r, tmin, tmax) ==
    CASE o.kind = "sphere" ->
           LET disc == SphereDiscriminant(o, r)
           IN QLt(disc, QInt(0)) \/ QSqrtExact(disc)
      [] o.kind = "torus" ->
           \A k \in 1..Len(o.eigs) :
               (Abs(o.eigs[k].im16) <= ImTolerance16
                /\ RangeContains(tmin, tmax, o.eigs[k].re))
               => TorusNormalExact(o, r, o.eigs[k].re)
      [] OTHER -> TRUE

ScenarioExact(w, r, tmin, tmax) ==
    \A i \in 1..Len(w) : ObjectExact(w[i], r, tmin, tmax)

NoCall == [kind |-> "none", tmin |-> QInt(0), tmax |-> QInt(0), res |-> None]

HitOff ==
    /\ world = <<>> /\ ray = Ray(V(0, 0, 0), V(0, 0, 0))
    /\ t_min = QInt(0) /\ t_max0 = QInt(0) /\ t_max = QInt(0)
    /\ closest_hit = None /\ obj_i = 1 /\ last_call = NoCall /\ hpc = "off"

\* A call of <[T] as Hittable>::hit: `let mut closest_hit = None`
HitInit ==
    /\ world \in Worlds /\ ray \in Rays /\ t_min \in TMins /\ t_max0 \in TMaxs
    /\ ScenarioExact(world, ray, t_min, t_max0)
    /\ t_max = t_max0
    /\ closest_hit = None /\ obj_i = 1 /\ last_call = NoCall /\ hpc = "loop"

\* One iteration of `for object in self`
CollectionStep ==
    /\ hpc = "loop" /\ obj_i <= Len(world)
    /\ LET res == ObjectHit(world[obj_i], ray, t_min, t_max)
       IN /\ last_call' = [kind |-> world[obj_i].kind, tmin |-> t_min,
                           tmax |-> t_max, res |-> res]
          /\ IF res.some
             THEN /\ t_max' = NarrowedTMax(res.val, t_max)
                  /\ closest_hit' = res
             ELSE UNCHANGED <<t_max, closest_hit>>
    /\ obj_i' = obj_i + 1
    /\ UNCHANGED <<world, ray, t_min, t_max0, hpc>>
    /\ UNCHANGED <<scatterVars, colorVars, renderVars>>

\* The loop is over: `closest_hit` is returned
CollectionReturn ==
    /\ hpc = "loop" /\ obj_i > Len(world)
    /\ hpc' = "done"
    /\ UNCHANGED <<world, ray, t_min, t_max0, t_max, closest_hit, obj_i, last_call>>
    /\ UNCHANGED <<scatterVars, colorVars, renderVars>>

\* <[T] as Hittable>::hit as a function of its arguments: the loop from member
\* i on, with the window's upper end and closest_hit as they stand
RECURSIVE CollectionHitFrom(_, _, _, _, _, _)
CollectionHitFrom(w, r, tmin, tmax, i, closest) ==
    IF i > Len(w) THEN closest
    ELSE LET res == ObjectHit(w[i], r, tmin, tmax)
         IN IF res.some
            THEN CollectionHitFrom(w, r, tmin, NarrowedTMax(res.val, tmax), i + 1, res)
            ELSE CollectionHitFrom(w, r, tmin, tmax, i + 1, closest)

CollectionHit(w, r, tmin, tmax) == CollectionHitFrom(w, r, tmin, tmax, 1, None)

-----------------------------------------------------------------------------
(* Materials: Metal *)

\* Metal::new clamps a fuzz of magnitude 1 or more to 1
MetalNew(albedo, fuzz) ==
    [albedo |-> albedo,
     fuzz |-> IF QLt(IF fuzz[1] < 0 THEN QNeg(fuzz) ELSE fuzz, QInt(1))
              THEN fuzz ELSE QInt(1)]

Reflect(v, n) == VSub(v, VScale(QMul(QInt(2), VDot(v, n)), n))

\* The slip of testing the perturbed direction instead of the mirror one.
MetalScatterPerturbedTest(m, r, hit, rnd) ==
    LET reflected == Reflect(r.direction, hit.normal)
        direction == IF m.fuzz = QInt(0) THEN reflected
                     ELSE VAdd(reflected, VScale(m.fuzz, rnd))
    IN IF QGt(VDot(direction, hit.normal), QInt(0))
       THEN Some([attenuation |-> m.albedo, ray |-> Ray(hit.point, direction)])
       ELSE None

\* Metal::scatter; rnd is the draw of Vec3::random_in_unit_sphere
MetalScatter(m, r, hit, rnd) ==
    LET reflected == Reflect(r.direction, hit.normal)
        direction == IF m.fuzz = QInt(0) THEN reflected
                     ELSE VAdd(reflected, VScale(m.fuzz, rnd))
    IN IF QGt(VDot(reflected, hit.normal), QInt(0))
       THEN Some([attenuation |-> m.albedo, ray |-> Ray(hit.point, direction)])
       ELSE None

ScatterRays ==
    {Ray(V(0, 0, 0), V(0, 0, -1)), Ray(V(0, 1, 0), <<4, 0, -1, 4>>),
     Ray(V(0, 0, 0), V(1, 0, 0))}
OutwardNormals == {V(0, 0, 1), V(0, 0, -1), V(0, 1, 0), V(1, 0, 1)}
HitTs == {QInt(2), <<1, 2>>}
Albedos == {V(1, 1, 1), <<4, 3, 0, 5>>}
Fuzzes == {QInt(0), <<1, 2>>, QInt(2)}
\* points strictly inside the unit sphere
UnitSphereDraws == {V(0, 0, 0), <<0, 0, -1, 2>>, <<1, 0, 0, 2>>}

NoGlass == [on |-> FALSE, ri |-> QInt(1)]

ScatterOff ==
    /\ s_ray = Ray(V(0, 0, 0), V(0, 0, 0)) /\ s_outward = V(0, 0, 0)
    /\ s_t = QInt(0) /\ s_hit = None
    /\ s_metal = [albedo |-> V(0, 0, 0), fuzz |-> QInt(0)]
    /\ s_rnd = V(0, 0, 0) /\ s_glass = NoGlass /\ s_draw = QInt(0)
    /\ s_out = None /\ spc = "off"

ScatterInit ==
    /\ s_ray \in ScatterRays /\ s_outward \in OutwardNormals /\ s_t \in HitTs
    /\ s_metal \in {MetalNew(a, f) : a \in Albedos, f \in Fuzzes}
    /\ s_glass = NoGlass /\ s_draw = QInt(0)
    /\ s_hit = None /\ s_rnd = V(0, 0, 0) /\ s_out = None /\ spc = "build"

\* A Hittable builds the Hit of its intersection
BuildHit ==
    /\ spc = "build"
    /\ s_hit' = Some(WithFaceNormal(s_ray, s_outward, s_t,
                                    IF s_glass.on THEN "dielectric" ELSE "metal"))
    /\ spc' = "scatter"
    /\ UNCHANGED <<s_ray, s_outward, s_t, s_metal, s_rnd, s_glass, s_draw, s_out>>
    /\ UNCHANGED <<hitVars, colorVars, renderVars>>

\* material.scatter(ray, &hit) on the Metal
ScatterMetal ==
    /\ spc = "scatter" /\ ~s_glass.on
    /\ \E rnd \in UnitSphereDraws :
           /\ s_rnd' = rnd
           /\ s_out' = MetalScatter(s_metal, s_ray, s_hit.val, rnd)
    /\ spc' = "done"
    /\ UNCHANGED <<s_ray, s_outward, s_t, s_hit, s_metal, s_glass, s_draw>>
    /\ UNCHANGED <<hitVars, colorVars, renderVars>>

-----------------------------------------------------------------------------
(* Materials: Dielectric *)

\* f64::powi for a non-negative exponent
RECURSIVE Powi(_, _)
Powi(x, n) == IF n = 0 THEN QInt(1) ELSE QMul(x, Powi(x, n - 1))

\* Schlick's approximation
Reflectance(cosine, refraction_index) ==
    LET r0a == QDiv(QSub(QInt(1), refraction_index), QAdd(QInt(1), refraction_index))
        r0 == QMul(r0a, r0a)
    IN QAdd(r0, QMul(QSub(QInt(1), r0), Powi(QSub(QInt(1), cosine), 5)))

\* The slip of leaving out the component along the normal.
RefractPerpOnly(r_in, normal, etai_over_etat) ==
    LET cos_theta == QMin(VDot(VNeg(r_in), normal), QInt(1))
    IN VScale(etai_over_etat, VAdd(r_in, VScale(cos_theta, normal)))

Refract(r_in, normal, etai_over_etat) ==
    LET cos_theta == QMin(VDot(VNeg(r_in), normal), QInt(1))
        r_out_perp == VScale(etai_over_etat, VAdd(r_in, VScale(cos_theta, normal)))
        r_out_parallel ==
            VScale(QNeg(QSqrt(QSub(QInt(1), VLengthSquared(r_out_perp)))), normal)
    IN VAdd(r_out_perp, r_out_parallel)

DielectricCosTheta(r, hit) ==
    QMin(VDot(VNeg(VNormalize(r.direction)), hit.normal), QInt(1))

DielectricRatio(m, hit) == IF hit.front_face THEN QDiv(QInt(1), m.ri) ELSE m.ri

DielectricSinTheta(r, hit) ==
    QSqrt(QSub(QInt(1), QMul(DielectricCosTheta(r, hit), DielectricCosTheta(r, hit))))

CannotRefract(m, r, hit) ==
    QGt(QMul(DielectricRatio(m, hit), DielectricSinTheta(r, hit)), QInt(1))

\* Dielectric::scatter; draw is the value of rand::random()
DielectricScatter(m, r, hit, draw) ==
    LET refraction_ratio == DielectricRatio(m, hit)
        unit_direction == VNormalize(r.direction)
        cos_theta == DielectricCosTheta(r, hit)
        direction ==
            IF CannotRefract(m, r, hit)
               \/ QGt(Reflectance(cos_theta, refraction_ratio), draw)
            THEN Reflect(unit_direction, hit.normal)
            ELSE Refract(unit_direction, hit.normal, refraction_ratio)
    IN Some([attenuation |-> V(1, 1, 1), ray |-> Ray(hit.point, direction)])

GlassRays ==
    {Ray(V(0, 0, 0), V(0, 0, -2)), Ray(V(0, 1, 0), V(3, 0, -4)),
     Ray(V(0, 0, 0), V(4, 0, -3)), Ray(V(0, 0, 0), V(1, 0, 0))}
GlassNormals == {V(0, 0, 1), V(0, 0, -1)}
RefractiveIndices == {QInt(1), <<4, 3>>}
\* values of the uniform draw in [0, 1)
UniformDraws == {QInt(0), <<1, 100>>, <<1, 2>>, <<99, 100>>}

\* every square root of the scatter is taken of the square of a rational
GlassExact(m, r, outward) ==
    LET hit == WithFaceNormal(r, outward, QInt(1), "dielectric")
        cos_theta == DielectricCosTheta(r, hit)
        sin2 == QSub(QInt(1), QMul(cos_theta, cos_theta))
        ratio == DielectricRatio(m, hit)
    IN /\ QSqrtExact(VLengthSquared(r.direction))
       /\ QSqrtExact(sin2)
       /\ \/ CannotRefract(m, r, hit)
          \/ QSqrtExact(QSub(QInt(1), QMul(QMul(ratio, ratio), sin2)))

GlassInit ==
    /\ s_ray \in GlassRays /\ s_outward \in GlassNormals /\ s_t \in HitTs
    /\ s_glass \in {[on |-> TRUE, ri |-> ri] : ri \in RefractiveIndices}
    /\ GlassExact(s_glass, s_ray, s_outward)
    /\ s_metal = [albedo |-> V(0, 0, 0), fuzz |-> QInt(0)]
    /\ s_draw = QInt(0)
    /\ s_hit = None /\ s_rnd = V(0, 0, 0) /\ s_out = None /\ spc = "build"

\* material.scatter(ray, &hit) on the Dielectric
ScatterDielectric ==
    /\ spc = "scatter" /\ s_glass.on
    /\ \E draw \in UniformDraws :
           /\ s_draw' = draw
           /\ s_out' = DielectricScatter(s_glass, s_ray, s_hit.val, draw)
    /\ spc' = "done"
    /\ UNCHANGED <<s_ray, s_outward, s_t, s_hit, s_metal, s_rnd, s_glass>>
    /\ UNCHANGED <<hitVars, colorVars, renderVars>>

-----------------------------------------------------------------------------
(* ray_color *)

\* Deepest outermost call tried
MaxDepth == 3

Black == V(0, 0, 0)

\* Color * Color, component-wise
VMul(a, b) == VMk(a[1] * b[1], a[2] * b[2], a[3] * b[3], a[4] * b[4])

\* The background gradient of a ray that hits nothing
Background(r) ==
    LET direction == VNormalize(r.direction)
        t == QMul(<<1, 2>>, QAdd(<<direction[2], direction[4]>>, QInt(1)))
    IN VAdd(VScale(QSub(QInt(1), t), V(1, 1, 1)), VScale(t, <<5, 7, 10, 10>>))

\* The slip of letting depth 0 through.
DepthExhaustedBelowZero(depth) == depth < 0

\* `if depth <= 0`
DepthExhausted(depth) == depth <= 0

\* The slip of skipping a level of the budget.
RecursionDepthSkip(depth) == depth - 2

\* `depth - 1` of the recursive call
RecursionDepth(depth) == depth - 1

\* The slip of opening the window at the ray's origin.
RayColorTMinZero == QInt(0)

\* lower end of the window of `world.hit(ray, 0.001, f64::INFINITY)`
RayColorTMin == <<1, 1000>>

\* A sphere that encloses the origins of all ColorRays, and one that passes
\* through the origin
Cavity == Sphere(V(1, 0, 0), <<5, 4>>, "mirror")
Touch == Sphere(V(0, 0, -1), QInt(1), "matte")
ColorWorlds == {<<>>, <<Cavity>>, <<Touch>>, <<Touch, Cavity>>}

\* Rays whose direction has a rational length
ColorRays ==
    {Ray(V(0, 0, 0), V(0, 1, 0)), Ray(V(0, 0, 0), V(0, 0, -1)),
     Ray(V(1, 0, 0), V(3, -4, 0))}

ColorOff ==
    /\ rc_depth0 = 0 /\ rc_depth = 0 /\ rc_ray = Ray(V(0, 0, 0), V(0, 0, 0))
    /\ rc_stack = <<>> /\ rc_val = Black /\ rc_tests = 0 /\ rc_scatters = 0
    /\ rc_calls = 0 /\ rc_world = <<>> /\ rc_chain = <<>> /\ rc_end = "none"
    /\ rc_pc = "off"

ColorInit ==
    /\ rc_depth0 \in -1..MaxDepth /\ rc_depth = rc_depth0 /\ rc_ray \in ColorRays
    /\ rc_world \in ColorWorlds
    /\ rc_stack = <<>> /\ rc_val = Black /\ rc_tests = 0 /\ rc_scatters = 0
    /\ rc_calls = 0 /\ rc_chain = <<>> /\ rc_end = "none" /\ rc_pc = "call"

\* ray_color is entered with (rc_ray, rc_depth).  The scene answers the
\* intersection test; what the material of a hit answers is either of:
\* absorbed, scattered as (attenuation, scattered).
RayColorCall ==
    /\ rc_pc = "call"
    /\ rc_calls' = rc_calls + 1
    /\ IF DepthExhausted(rc_depth)
       THEN /\ rc_val' = Black /\ rc_pc' = "ret" /\ rc_end' = "depth"
            /\ UNCHANGED <<rc_depth, rc_ray, rc_stack, rc_tests, rc_scatters, rc_chain>>
       ELSE /\ rc_tests' = rc_tests + 1
            /\ IF ~CollectionHit(rc_world, rc_ray, RayColorTMin, INFINITY).some
               THEN \* world.hit is None: the background
                    /\ rc_val' = Background(rc_ray) /\ rc_pc' = "ret"
                    /\ rc_end' = "miss"
                    /\ UNCHANGED <<rc_depth, rc_ray, rc_stack, rc_scatters, rc_chain>>
               ELSE /\ rc_scatters' = rc_scatters + 1
                    /\ \/ \* scatter is None
                          /\ rc_val' = Black /\ rc_pc' = "ret"
                          /\ rc_end' = "absorbed"
                          /\ UNCHANGED <<rc_depth, rc_ray, rc_stack, rc_chain>>
                       \/ \* scatter is Some((attenuation, scattered))
                          /\ \E attenuation \in Albedos, scattered \in ColorRays :
                                 /\ rc_stack' = Append(rc_stack, attenuation)
                                 /\ rc_chain' = Append(rc_chain, attenuation)
                                 /\ rc_ray' = scattered
                          /\ rc_depth' = RecursionDepth(rc_depth)
                          /\ rc_pc' = "call"
                          /\ UNCHANGED <<rc_val, rc_end>>
    /\ UNCHANGED <<rc_depth0, rc_world>>
    /\ UNCHANGED <<hitVars, scatterVars, renderVars>>

\* A recursive call returns: `attenuation * ray_color(..)`
RayColorReturn ==
    /\ rc_pc = "ret" /\ rc_stack # <<>>
    /\ rc_val' = VMul(rc_stack[Len(rc_stack)], rc_val)
    /\ rc_stack' = SubSeq(rc_stack, 1, Len(rc_stack) - 1)
    /\ rc_depth' = rc_depth + 1
    /\ UNCHANGED <<rc_depth0, rc_ray, rc_tests, rc_scatters, rc_calls, rc_world,
                   rc_chain, rc_end, rc_pc>>
    /\ UNCHANGED <<hitVars, scatterVars, renderVars>>

\* The outermost call returns
RayColorDone ==
    /\ rc_pc = "ret" /\ rc_stack = <<>>
    /\ rc_pc' = "done"
    /\ UNCHANGED <<rc_depth0, rc_depth, rc_ray, rc_stack, rc_val, rc_tests,
                   rc_scatters, rc_calls, rc_world, rc_chain, rc_end>>
    /\ UNCHANGED <<hitVars, scatterVars, renderVars>>

-----------------------------------------------------------------------------
(* main: the parallel render and the assembly of the output image *)

\* Image size of the model (the program's is 800 x 450)
IMG_WIDTH == 2
IMG_HEIGHT == 3
\* Most worker threads tried
MaxThreads == 4

NPixels == IMG_WIDTH * IMG_HEIGHT
Pixels == 0..(NPixels - 1)
Coords == (0..(IMG_WIDTH - 1)) \X (0..(IMG_HEIGHT - 1))

Unset == <<-1, -1>>

\* calculate_pixel, for a colour that is a function of (row, col) only: the
\* colour names the coordinates it was computed for
CalculatePixel(row, col) == <<row, col>>

\* The slip of rounding the chunk size up.
ChunkSizeCeil(n) == (NPixels + n - 1) \div n

\* `chunk_size = (IMG_HEIGHT * IMG_WIDTH) / threads`
ChunkSize(n) == NPixels \div n

\* par_chunks_mut(chunk_size): the chunks are numbered from 0, each of
\* chunk_size elements but the last, which holds what is left
NumChunks(n) == (NPixels + ChunkSize(n) - 1) \div ChunkSize(n)
ChunkStart(n, num) == ChunkSize(n) * num
ChunkLen(n, num) ==
    IF ChunkStart(n, num) + ChunkSize(n) <= NPixels THEN ChunkSize(n)
    ELSE NPixels - ChunkStart(n, num)

\* The slip of counting the offset in chunks.
OffsetInChunks(n, num) == num

\* `let offset = chunk_size * num`
Offset(n, num) == ChunkSize(n) * num

\* `let mut row = offset / IMG_WIDTH`
StartRow(offset) == offset \div IMG_WIDTH

\* The slip of taking every chunk to start at the start of a row.
StartColZero(offset) == 0

\* `let mut col = offset % IMG_WIDTH`
StartCol(offset) == offset % IMG_WIDTH

\* The slip of walking the image rows top-down.
AssemblyRowsForward == [i \in 1..IMG_HEIGHT |-> i - 1]

\* `(0..IMG_HEIGHT).rev()`
AssemblyRows == [i \in 1..IMG_HEIGHT |-> IMG_HEIGHT - i]

Chunks == DOMAIN chunk
Running == {c \in Chunks : chunk[c].pc \notin {"idle", "done"}}
NoReport == [val |-> -1, rows |-> -1]

RenderOff ==
    /\ threads = 0 /\ buf = <<>> /\ writes = <<>> /\ writer = <<>> /\ chunk = <<>>
    /\ linesleft = 0 /\ rows_done = 0 /\ reported = NoReport /\ imgbuf = <<>>
    /\ puts = <<>> /\ a_idx = 0 /\ a_row = 1 /\ a_col = 0 /\ mpc = "off"

\* main up to the parallel loop: the buffer is black, linesleft is IMG_HEIGHT
RenderInit ==
    /\ threads \in 1..MaxThreads
    /\ buf = [i \in Pixels |-> Unset]
    /\ writes = [i \in Pixels |-> 0]
    /\ writer = [i \in Pixels |-> {}]
    /\ chunk = [c \in 0..(NumChunks(threads) - 1) |->
                   [pc |-> "idle", k |-> 0, row |-> 0, col |-> 0, lines |-> 0]]
    /\ linesleft = IMG_HEIGHT /\ rows_done = 0 /\ reported = NoReport
    /\ imgbuf = [p \in Coords |-> Unset]
    /\ puts = [p \in Coords |-> 0]
    /\ a_idx = 0 /\ a_row = 1 /\ a_col = 0 /\ mpc = "render"

\* A pool thread takes chunk c: offset, row and col are set
StartChunk(c) ==
    /\ mpc = "render" /\ chunk[c].pc = "idle"
    /\ Cardinality(Running) < threads
    /\ LET offset == Offset(threads, c)
       IN chunk' = [chunk EXCEPT ![c] =
                       [pc |-> "pixel", k |-> 0, row |-> StartRow(offset),
                        col |-> StartCol(offset), lines |-> 0]]
    /\ UNCHANGED <<threads, buf, writes, writer, linesleft, rows_done, reported,
                   imgbuf, puts, a_idx, a_row, a_col, mpc>>
    /\ UNCHANGED <<hitVars, scatterVars, colorVars>>

AfterPixel(c) == IF chunk[c].k + 1 = ChunkLen(threads, c) THEN "done" ELSE "pixel"

\* `*pixel = calculate_pixel(row, col, ..)`, `col += 1` and, at the end of a
\* row, `col = 0; row += 1`
WritePixel(c) ==
    /\ mpc = "render" /\ chunk[c].pc = "pixel"
    /\ LET idx == ChunkStart(threads, c) + chunk[c].k
           ch == chunk[c]
       IN /\ buf' = [buf EXCEPT ![idx] = CalculatePixel(ch.row, ch.col)]
          /\ writes' = [writes EXCEPT ![idx] = @ + 1]
          /\ writer' = [writer EXCEPT ![idx] = @ \cup {c}]
          /\ IF ch.col + 1 = IMG_WIDTH
             THEN /\ chunk' = [chunk EXCEPT ![c].col = 0, ![c].row = ch.row + 1,
                                            ![c].pc = "load"]
                  /\ rows_done' = rows_done + 1
             ELSE /\ chunk' = [chunk EXCEPT ![c].col = ch.col + 1, ![c].k = ch.k + 1,
                                            ![c].pc = AfterPixel(c)]
                  /\ UNCHANGED rows_done
    /\ UNCHANGED <<threads, linesleft, reported, imgbuf, puts, a_idx, a_row, a_col, mpc>>
    /\ UNCHANGED <<hitVars, scatterVars, colorVars>>

\* `let lines = linesleft.load(Ordering::SeqCst) - 1`
LoadLines(c) ==
    /\ mpc = "render" /\ chunk[c].pc = "load"
    /\ chunk' = [chunk EXCEPT ![c].lines = linesleft - 1, ![c].pc = "store"]
    /\ UNCHANGED <<threads, buf, writes, writer, linesleft, rows_done, reported,
                   imgbuf, puts, a_idx, a_row, a_col, mpc>>
    /\ UNCHANGED <<hitVars, scatterVars, colorVars>>

\* `linesleft.store(lines, Ordering::SeqCst)` and the print of `lines`
StoreLines(c) ==
    /\ mpc = "render" /\ chunk[c].pc = "store"
    /\ linesleft' = chunk[c].lines
    /\ reported' = [val |-> chunk[c].lines, rows |-> rows_done]
    /\ chunk' = [chunk EXCEPT ![c].k = chunk[c].k + 1, ![c].pc = AfterPixel(c)]
    /\ UNCHANGED <<threads, buf, writes, writer, rows_done, imgbuf, puts, a_idx,
                   a_row, a_col, mpc>>
    /\ UNCHANGED <<hitVars, scatterVars, colorVars>>

\* for_each_init returns once every chunk is processed
RenderJoin ==
    /\ mpc = "render" /\ \A c \in Chunks : chunk[c].pc = "done"
    /\ mpc' = "assemble"
    /\ UNCHANGED <<threads, buf, writes, writer, chunk, linesleft, rows_done,
                   reported, imgbuf, puts, a_idx, a_row, a_col>>
    /\ UNCHANGED <<hitVars, scatterVars, colorVars>>

\* `imgbuf.put_pixel(col, row, buf[idx]); idx += 1` and the loops' steps
PutPixel ==
    /\ mpc = "assemble" /\ a_row <= IMG_HEIGHT
    /\ LET row == AssemblyRows[a_row]
       IN /\ imgbuf' = [imgbuf EXCEPT ![<<a_col, row>>] = buf[a_idx]]
          /\ puts' = [puts EXCEPT ![<<a_col, row>>] = @ + 1]
    /\ a_idx' = a_idx + 1
    /\ IF a_col + 1 = IMG_WIDTH
       THEN a_col' = 0 /\ a_row' = a_row + 1
       ELSE a_col' = a_col + 1 /\ UNCHANGED a_row
    /\ UNCHANGED <<threads, buf, writes, writer, chunk, linesleft, rows_done,
                   reported, mpc>>
    /\ UNCHANGED <<hitVars, scatterVars, colorVars>>

\* `imgbuf.save("output.png")`
SaveImage ==
    /\ mpc = "assemble" /\ a_row > IMG_HEIGHT
    /\ mpc' = "saved"
    /\ UNCHANGED <<threads, buf, writes, writer, chunk, linesleft, rows_done,
                   reported, imgbuf, puts, a_idx, a_row, a_col>>
    /\ UNCHANGED <<hitVars, scatterVars, colorVars>>

-----------------------------------------------------------------------------
(* Specifications *)

InitHit == HitInit /\ ScatterOff /\ ColorOff /\ RenderOff
NextHit == CollectionStep \/ CollectionReturn
SpecHit == InitHit /\ [][NextHit]_vars

InitScatter == HitOff /\ ScatterInit /\ ColorOff /\ RenderOff
NextScatter == BuildHit \/ ScatterMetal
SpecScatter == InitScatter /\ [][NextScatter]_vars

InitGlass == HitOff /\ GlassInit /\ ColorOff /\ RenderOff
NextGlass == BuildHit \/ ScatterDielectric
SpecGlass == InitGlass /\ [][NextGlass]_vars

InitColor == HitOff /\ ScatterOff /\ ColorInit /\ RenderOff
NextColor == RayColorCall \/ RayColorReturn \/ RayColorDone
SpecColor == InitColor /\ [][NextColor]_vars

InitRender == HitOff /\ ScatterOff /\ ColorOff /\ RenderInit
StartSome == \E c \in Chunks : StartChunk(c)
WriteSome == \E c \in Chunks : WritePixel(c)
LoadSome == \E c \in Chunks : LoadLines(c)
StoreSome == \E c \in Chunks : StoreLines(c)
NextRender ==
    \/ StartSome
    \/ WriteSome
    \/ LoadSome
    \/ StoreSome
    \/ RenderJoin
    \/ PutPixel
    \/ SaveImage
SpecRender == InitRender /\ [][NextRender]_vars

-----------------------------------------------------------------------------
(* The collection's hit (SpecHit) *)

\* What each member reports when given the whole window
MemberHits ==
    {ObjectHit(world[i], ray, t_min, t_max0) : i \in 1..Len(world)} \ {None}

\* C1: when the collection's hit returns, it returns None if no member hits
\* in [t_min, t_max), and otherwise a member's hit whose t is the least of
\* all members' hits in the window, wherever that member stands.
C1_CollectionReturnsClosest ==
    hpc = "done" =>
        /\ (MemberHits = {}) = (closest_hit = None)
        /\ closest_hit.some =>
               /\ closest_hit \in MemberHits
               /\ \A h \in MemberHits : QLe(closest_hit.val.t, h.val.t)

\* C1 witness: the first member hits, and a later member's nearer hit is returned.
C1_Witness ==
    /\ hpc = "done" /\ Len(world) >= 2 /\ closest_hit.some
    /\ ObjectHit(world[1], ray, t_min, t_max0).some
    /\ QLt(closest_hit.val.t, ObjectHit(world[1], ray, t_min, t_max0).val.t)

\* lo <= t < hi
InWindow(lo, hi, t) == QLe(lo, t) /\ QLt(t, hi) /\ t # hi

\* C2: every hit a Sphere, Torus or Parallelogram returns has t in the window
\* [t_min, t_max) of its call, and so has the hit the collection holds.
C2_HitInsideWindow ==
    /\ last_call.res.some =>
           InWindow(last_call.tmin, last_call.tmax, last_call.res.val.t)
    /\ closest_hit.some => InWindow(t_min, t_max0, closest_hit.val.t)

\* C2 witness: a sphere whose smaller root equals the t_max it is given (the
\* window was narrowed to it by an earlier hit) reports nothing.
C2_Witness ==
    /\ closest_hit.some /\ last_call.kind = "sphere" /\ ~last_call.res.some
    /\ obj_i > 1 /\ obj_i <= Len(world) + 1
    /\ LET s == world[obj_i - 1]
           oc == VSub(ray.origin, s.center)
           disc == SphereDiscriminant(s, ray)
       IN /\ QLe(QInt(0), disc)
          /\ QDiv(QSub(QNeg(VDot(oc, ray.direction)), QSqrt(disc)),
                  VLengthSquared(ray.direction)) = last_call.tmax

\* C14: Sphere::hit reports no hit on a negative discriminant; otherwise,
\* with roots r1 <= r2, it reports r1 if r1 is in [t_min, t_max), else r2 if
\* r2 is, else no hit, so that the reported t is the smallest root inside
\* the window.  The sphere of radius 0.5 centred at (0,0,-1), hit by the ray
\* from the origin along (0,0,-1), is hit at t = 0.5, point (0,0,-0.5), with
\* normal (0,0,1) and front_face true.
C14_SphereReportsNearestRootInWindow ==
    (hpc # "off" /\ last_call.kind = "sphere") =>
        LET s == world[obj_i - 1]
            res == last_call.res
            lo == last_call.tmin
            hi == last_call.tmax
            oc == VSub(ray.origin, s.center)
            a == VDot(ray.direction, ray.direction)
            half_b == VDot(oc, ray.direction)
            c == QSub(VDot(oc, oc), QMul(s.radius, s.radius))
            disc == QSub(QMul(half_b, half_b), QMul(a, c))
            r1 == QDiv(QSub(QNeg(half_b), QSqrt(disc)), a)
            r2 == QDiv(QAdd(QNeg(half_b), QSqrt(disc)), a)
        IN /\ QLt(disc, QInt(0)) => ~res.some
           /\ a = QInt(0) => ~res.some
           /\ (QLe(QInt(0), disc) /\ QLt(QInt(0), a)) =>
                  /\ QLe(r1, r2)
                  /\ IF InWindow(lo, hi, r1) THEN res.some /\ res.val.t = r1
                     ELSE IF InWindow(lo, hi, r2) THEN res.some /\ res.val.t = r2
                     ELSE ~res.some
           /\ res.some =>
                  /\ QAdd(QMul(a, QMul(res.val.t, res.val.t)),
                          QAdd(QMul(QInt(2), QMul(half_b, res.val.t)), c)) = QInt(0)
                  /\ \A r \in {r1, r2} : InWindow(lo, hi, r) => QLe(res.val.t, r)
                  /\ res.val.point = RayAt(ray, res.val.t)
           /\ (/\ s.center = V(0, 0, -1) /\ s.radius = <<1, 2>>
               /\ ray = Ray(V(0, 0, 0), V(0, 0, -1))
               /\ InWindow(lo, hi, <<1, 2>>)) =>
                  /\ res.some
                  /\ res.val.t = <<1, 2>>
                  /\ res.val.point = <<0, 0, -1, 2>>
                  /\ res.val.normal = V(0, 0, 1)
                  /\ res.val.front_face

\* C14 witness: the sphere of radius 0.5 at (0,0,-1) is hit at its near
\* root 0.5 by the ray from the origin along (0,0,-1).
C14_Witness ==
    /\ hpc # "off" /\ last_call.kind = "sphere"
    /\ world[obj_i - 1] = Sphere3
    /\ ray = Ray(V(0, 0, 0), V(0, 0, -1))
    /\ last_call.res.some
    /\ last_call.res.val.t = <<1, 2>>
    /\ last_call.res.val.normal = V(0, 0, 1)
    /\ last_call.res.val.front_face

-----------------------------------------------------------------------------
(* Hit::with_face_normal and Metal::scatter (SpecScatter) *)

\* C3 as claimed: the stored normal has normal . direction < 0 exactly when
\* front_face is true.
C3_StoredNormalAgainstRayIffFront ==
    s_hit.some =>
        QLt(VDot(s_hit.val.normal, s_ray.direction), QInt(0)) = s_hit.val.front_face

\* C3 as amended: front_face is true exactly when the supplied outward normal
\* has outward . direction < 0; the stored normal is the outward normal when
\* front_face is true and its negation otherwise, so that the stored normal
\* never points along the ray (normal . direction <= 0) on either side.
C3_FrontFaceOfOutwardNormal ==
    s_hit.some =>
        /\ s_hit.val.front_face = QLt(VDot(s_outward, s_ray.direction), QInt(0))
        /\ s_hit.val.normal =
               (IF s_hit.val.front_face THEN s_outward ELSE VNeg(s_outward))
        /\ QLe(VDot(s_hit.val.normal, s_ray.direction), QInt(0))

\* C3 witness: a hit from inside; the flipped normal points against the ray.
C3_Witness ==
    /\ s_hit.some /\ ~s_hit.val.front_face
    /\ s_hit.val.normal = VNeg(s_outward)
    /\ QLt(VDot(s_hit.val.normal, s_ray.direction), QInt(0))

\* C10: Metal::scatter returns nothing exactly when the mirror direction
\* d - 2(d.n)n has a dot product <= 0 with the normal, whatever fuzz and the
\* random draw are; a returned ray starts at the hit point and its
\* attenuation is the albedo.
C10_MetalRejectsIffMirrorInside ==
    spc = "done" =>
        LET d == s_ray.direction
            n == s_hit.val.normal
            mirror == VSub(d, VScale(QMul(QInt(2), VDot(d, n)), n))
        IN /\ (s_out = None) = QLe(VDot(mirror, n), QInt(0))
           /\ s_out.some =>
                  /\ s_out.val.attenuation = s_metal.albedo
                  /\ s_out.val.ray.origin = s_hit.val.point

\* C10 witness: a fuzzy metal returns a ray although the perturbed direction
\* points into the surface.
C10_Witness ==
    /\ spc = "done" /\ s_out.some /\ s_metal.fuzz # QInt(0)
    /\ QLe(VDot(s_out.val.ray.direction, s_hit.val.normal), QInt(0))

-----------------------------------------------------------------------------
(* ray_color (SpecColor) *)

\* C4: a call of ray_color with depth <= 0 returns black, having made no
\* intersection test, no scatter and no recursive call.
C4_NoBudgetReturnsBlack ==
    (rc_depth0 <= 0 /\ rc_pc \in {"ret", "done"}) =>
        /\ rc_val = Black
        /\ rc_tests = 0 /\ rc_scatters = 0 /\ rc_calls = 1

\* C4 witness: the call with depth 0 has returned.
C4_Witness ==
    rc_pc = "done" /\ rc_depth0 = 0 /\ rc_calls = 1 /\ rc_val = Black

\* the budget of a call with depth d >= 0: at most d intersection tests and
\* d + 1 invocations, each pending recursion having lowered depth by one
WithinBudget ==
    (rc_pc # "off" /\ rc_depth0 >= 0) =>
        /\ rc_tests <= rc_depth0
        /\ rc_calls <= rc_depth0 + 1
        /\ rc_depth = rc_depth0 - Len(rc_stack)
        /\ rc_depth >= 0
        /\ rc_pc \in {"call", "ret", "done"}

\* Steps the run can still take at most: a call of depth d has d further
\* calls below it, and every pending call returns once.
StepsLeft ==
    CASE rc_pc = "call" ->
             2 * (IF rc_depth > 0 THEN rc_depth ELSE 0) + Len(rc_stack) + 2
      [] rc_pc = "ret" -> Len(rc_stack) + 1
      [] OTHER -> 0

\* C12: ray_color terminates for every scene, ray and sequence of scatter
\* outcomes: a call with depth d >= 0 makes at most d intersection tests and
\* at most d + 1 nested invocations, depth going down by exactly 1 at each
\* recursion, also when every bounce hits a surface that scatters.  Every
\* step lowers the number of steps left, which is 0 only once the outermost
\* call has returned, and a call or a return always has its next step.
C12_RayColorTerminatesWithinBudget ==
    /\ []WithinBudget
    /\ [][StepsLeft' < StepsLeft /\ StepsLeft' >= 0]_vars

\* C12 witness: inside the cavity every bounce scattered; the call with the
\* largest depth returned after depth tests and depth + 1 invocations.
C12_Witness ==
    /\ rc_pc = "done" /\ rc_depth0 = MaxDepth /\ rc_world = <<Cavity>>
    /\ rc_end = "depth" /\ Len(rc_chain) = MaxDepth
    /\ rc_tests = MaxDepth /\ rc_calls = MaxDepth + 1

\* component-wise product of the attenuations, from the outermost bounce on
RECURSIVE AttenuationProduct(_, _)
AttenuationProduct(chain, acc) ==
    IF chain = <<>> THEN acc
    ELSE AttenuationProduct(Tail(chain), VMul(acc, Head(chain)))

\* some member of the scene is hit by the last ray of the chain with t in
\* [0.001, +inf)
LastRayHits ==
    \E i \in 1..Len(rc_world) :
        ObjectHit(rc_world[i], rc_ray, <<1, 1000>>, INFINITY).some

\* C13: the value of ray_color for depth > 0 is the component-wise product of
\* the attenuations of all scattering bounces times a terminal colour: the
\* background gradient of the last ray if the chain ends on a miss (no hit
\* with t in [0.001, +inf)), black if it ends on an absorption or on depth 0;
\* an absorption at any bounce makes the result black.
C13_ValueIsChainProduct ==
    (rc_pc = "done" /\ rc_depth0 > 0) =>
        /\ rc_end \in {"miss", "absorbed", "depth"}
        /\ (rc_end = "miss") = (Len(rc_chain) < rc_depth0 /\ ~LastRayHits)
        /\ (rc_end = "depth") = (Len(rc_chain) = rc_depth0)
        /\ rc_val = VMul(AttenuationProduct(rc_chain, V(1, 1, 1)),
                         IF rc_end = "miss" THEN Background(rc_ray) ELSE Black)
        /\ rc_end # "miss" => rc_val = Black

\* C13 witness: the first ray hits the sphere through the origin and is
\* scattered with attenuation (0.8, 0.6, 0) along the tangent (0,1,0), whose
\* only roots are at t = 0: a miss, and the value is the attenuated background.
C13_Witness ==
    /\ rc_pc = "done" /\ rc_depth0 >= 2 /\ rc_world = <<Touch>>
    /\ rc_end = "miss" /\ rc_chain = << <<4, 3, 0, 5>> >>
    /\ rc_ray = Ray(V(0, 0, 0), V(0, 1, 0))
    /\ rc_val = <<20, 21, 0, 50>>

-----------------------------------------------------------------------------
(* The render and the assembly (SpecRender) *)

AllChunksDone == \A c \in Chunks : chunk[c].pc = "done"

\* C5: no buffer index is written twice or by two chunks, and once the
\* render is over every index i was written exactly once, with the colour of
\* (i div W, i mod W): the buffer does not depend on the schedule or on the
\* number of threads.
C5_BufferIndependentOfSchedule ==
    mpc # "off" =>
        /\ \A i \in Pixels : writes[i] <= 1 /\ Cardinality(writer[i]) <= 1
        /\ \A i \in Pixels :
               writes[i] = 1 =>
                   buf[i] = CalculatePixel(i \div IMG_WIDTH, i % IMG_WIDTH)
        /\ mpc # "render" => \A i \in Pixels : writes[i] = 1

\* C5 witness: the render is over after chunks ran interleaved (a chunk
\* started mid-row, several threads).
C5_Witness ==
    /\ mpc = "assemble" /\ threads >= 2
    /\ \E c \in Chunks : Offset(threads, c) % IMG_WIDTH # 0
    /\ \A i \in Pixels : buf[i] # Unset

\* no chunk is between the end of a row and its store
NoUpdateInFlight == \A c \in Chunks : chunk[c].pc \notin {"load", "store"}

\* C6: no decrement of linesleft is lost: whenever no update is in flight the
\* counter is IMG_HEIGHT minus the rows completed, and it is 0 once all
\* chunks have finished.
C6_NoLostDecrement ==
    mpc # "off" =>
        /\ NoUpdateInFlight => linesleft = IMG_HEIGHT - rows_done
        /\ AllChunksDone => linesleft = 0

\* C7: the counter never increases from one state to the next.
C7_CounterNeverIncreases == [][linesleft' <= linesleft]_vars

\* C8 as claimed: the buffer is split into exactly one chunk per thread (seen
\* when every chunk has been processed).
C8_OneChunkPerThread == mpc = "assemble" => Cardinality(Chunks) = threads

\* C8 as amended: for 1 <= n <= W*H the chunk size floor(W*H / n) is at least
\* 1 and the split yields ceil(W*H / chunk_size) chunks, which is at least n
\* and is n exactly when n divides W*H.
C8_AtLeastOneChunkPerThread ==
    /\ \A n \in 1..NPixels :
           /\ ChunkSize(n) >= 1
           /\ NumChunks(n) >= n
           /\ (NumChunks(n) = n) = (NPixels % n = 0)
    /\ mpc # "off" =>
           /\ Cardinality(Chunks) = NumChunks(threads)
           /\ Cardinality(Chunks) >= threads
           /\ (Cardinality(Chunks) = threads) = (NPixels % threads = 0)

\* C8 witness: a render with more chunks than threads has finished.
C8_Witness == mpc = "assemble" /\ Cardinality(Chunks) > threads

\* C9: when the image is saved, output pixel (col, y) holds
\* buf[(H-1-y)*W + col], the colour computed for internal row H-1-y; every
\* output pixel was put exactly once and no buffer entry went to two pixels.
C9_AssemblyFlipsRows ==
    mpc # "off" =>
        /\ \A p \in Coords : puts[p] <= 1
        /\ mpc = "saved" =>
               /\ \A p \in Coords :
                      /\ puts[p] = 1
                      /\ imgbuf[p] = buf[(IMG_HEIGHT - 1 - p[2]) * IMG_WIDTH + p[1]]
                      /\ imgbuf[p] = CalculatePixel(IMG_HEIGHT - 1 - p[2], p[1])
               /\ \A p, q \in Coords : imgbuf[p] = imgbuf[q] => p = q

\* C9 witness: the saved image has the bottom row of the viewport (internal
\* row 0) in its last row.
C9_Witness ==
    /\ mpc = "saved" /\ IMG_HEIGHT >= 2
    /\ imgbuf[<<0, IMG_HEIGHT - 1>>] = CalculatePixel(0, 0)
    /\ imgbuf[<<0, 0>>] = CalculatePixel(IMG_HEIGHT - 1, 0)

\* the buffer index of the pixel chunk c is at
GlobalIndex(c) == ChunkSize(threads) * c + chunk[c].k

\* C15: whenever a chunk is about to call calculate_pixel at its position k,
\* its (row, col) is ((offset+k) div W, (offset+k) mod W) with
\* offset = chunk_size * num, also in chunks that start or end inside a row,
\* so that 0 <= col < W and 0 <= row < H; once all chunks are processed every
\* coordinate was computed exactly once and the end of a row was reached
\* exactly H times over all chunks.
C15_CoordinatesMatchGlobalIndex ==
    mpc # "off" =>
        /\ \A c \in Chunks :
               chunk[c].pc = "pixel" =>
                   /\ chunk[c].row = GlobalIndex(c) \div IMG_WIDTH
                   /\ chunk[c].col = GlobalIndex(c) % IMG_WIDTH
                   /\ 0 <= chunk[c].col /\ chunk[c].col < IMG_WIDTH
                   /\ 0 <= chunk[c].row /\ chunk[c].row < IMG_HEIGHT
        /\ \A row \in 0..(IMG_HEIGHT - 1), col \in 0..(IMG_WIDTH - 1) :
               Cardinality({i \in Pixels : buf[i] = CalculatePixel(row, col)}) <= 1
        /\ rows_done <= IMG_HEIGHT
        /\ AllChunksDone =>
               /\ \A row \in 0..(IMG_HEIGHT - 1), col \in 0..(IMG_WIDTH - 1) :
                      Cardinality({i \in Pixels : buf[i] = CalculatePixel(row, col)}) = 1
               /\ \A i \in Pixels : writes[i] = 1
               /\ rows_done = IMG_HEIGHT

\* C15 witness: all chunks are processed, one of them started inside a row
\* and one ended inside a row, and H row ends were counted.
C15_Witness ==
    /\ mpc = "render" /\ AllChunksDone /\ rows_done = IMG_HEIGHT
    /\ \E c \in Chunks : (ChunkSize(threads) * c) % IMG_WIDTH # 0
    /\ \E c \in Chunks :
           (ChunkSize(threads) * c + ChunkLen(threads, c)) % IMG_WIDTH # 0
    /\ \A i \in Pixels : writes[i] = 1

-----------------------------------------------------------------------------
(* Dielectric of refractive index 1 *)

GlassScattered == spc = "done" /\ s_glass.on /\ s_out.some

=============================================================================
